---------------------------- MODULE Spec2Model ----------------------------
(***************************************************************************)
(* A model of the HTML-to-PDF converter: the extension popup (popup.js),   *)
(* the page-placement loop of generatePDFFromHTML, the headless            *)
(* convertHTMLToPDF of the Node module (pdf-converter.js) with its command *)
(* line, and the HTML preprocessing functions.                             *)
(*                                                                         *)
(* Six groups of variables:                                               *)
(*   - the page-placement loop (imgHeight .. pdfPages),                    *)
(*   - the headless calls and the command line (calls, browsers, cli),     *)
(*   - the popup (conv, status, clearTimers),                              *)
(*   - the HTML preprocessor (source, config, markup, applied),            *)
(*   - the popup's settings form (fields, stored, loaded, edits,           *)
(*     snapshot),                                                          *)
(*   - the subtree convertRelativeUrls works on (page, original, subtree,  *)
(*     urlsDone).                                                          *)
(* `host` says which program a behaviour runs: the popup ("extension"),    *)
(* the Node module called as a library ("node"), or the Node module run    *)
(* from the command line ("cli"); they never share a process.              *)
(***************************************************************************)
EXTENDS Integers, Sequences, FiniteSets, TLC

VARIABLES
    \* page-placement loop, popup.js 409-423
    imgHeight, pageHeight, heightLeft, position, pdfPages, loopPc,
    \* which program runs
    host,
    \* headless path, pdf-converter.js 90-191
    calls, browsers, cli,
    \* popup, popup.js
    conv, status, clearTimers,
    \* HTML preprocessing, pdf-converter.js 216-548 and popup.js 235-336
    source, config, markup, applied,
    \* settings form and storage, popup.js 610-649
    fields, stored, loaded, edits, snapshot,
    \* convertRelativeUrls in the page, popup.js 156-186
    page, original, subtree, urlsDone

loopVars == <<imgHeight, pageHeight, heightLeft, position, pdfPages, loopPc>>
nodeVars == <<calls, browsers, cli>>
popupVars == <<conv, status, clearTimers>>
prepVars == <<source, config, markup, applied>>
settingsVars == <<fields, stored, loaded, edits, snapshot>>
urlVars == <<page, original, subtree, urlsDone>>
vars == <<loopVars, host, nodeVars, popupVars, prepVars, settingsVars, urlVars>>
\* What the actions of one group leave alone.
loopFrame ==
    <<host, nodeVars, popupVars, prepVars, settingsVars, urlVars>>
nodeFrame ==
    <<loopVars, host, popupVars, prepVars, settingsVars, urlVars>>
popupFrame ==
    <<loopVars, host, nodeVars, prepVars, settingsVars, urlVars>>
prepFrame ==
    <<loopVars, host, nodeVars, popupVars, settingsVars, urlVars>>
settingsFrame == <<loopVars, host, nodeVars, popupVars, prepVars, urlVars>>
urlFrame == <<loopVars, host, nodeVars, popupVars, prepVars, settingsVars>>

(***************************************************************************)
(* Bounds of the model.                                                    *)
(***************************************************************************)
MaxImgHeight == 9
MaxPageHeight == 3
MaxCalls == 2
MaxConversions == 2
MaxPasses == 2
MaxMargin == 10
MaxEdits == 2
MaxElements == 2

(***************************************************************************)
(* THE PAGE-PLACEMENT LOOP (popup.js 409-423).  Lengths are whole numbers  *)
(* of one unit (the code's unit is the millimetre).                        *)
(***************************************************************************)

\* pdf.addImage(imgData, 'PNG', 0, position, imgWidth, imgHeight): the image is
\* always placed at x = 0 and at the current vertical position.
AddImage(pages, pos) == Append(pages, [x |-> 0, y |-> pos])

\* position = heightLeft - imgHeight  (line 419)
NextPositionSwapped(hl, ih) == ih - hl
NextPosition(hl, ih) == hl - ih

\* while (heightLeft >= 0)  (line 418)
LoopGuardStrict(hl) == hl > 0
LoopGuard(hl) == hl >= 0

InitLoop ==
    /\ imgHeight \in 0..MaxImgHeight
    /\ pageHeight \in 1..MaxPageHeight
    /\ heightLeft = imgHeight
    /\ position = 0
    /\ pdfPages = <<>>
    /\ loopPc = "first"

\* The loop is not running (behaviours of the other specifications).
LoopIdle ==
    /\ imgHeight = 0
    /\ pageHeight = 1
    /\ heightLeft = 0
    /\ position = 0
    /\ pdfPages = <<>>
    /\ loopPc = "idle"

\* lines 415-416: the first page
PlaceFirstPage ==
    /\ loopPc = "first"
    /\ pdfPages' = AddImage(pdfPages, position)
    /\ heightLeft' = heightLeft - pageHeight
    /\ loopPc' = "loop"
    /\ UNCHANGED <<imgHeight, pageHeight, position, loopFrame>>

\* lines 418-423: one iteration of the while loop
LoopIteration ==
    /\ loopPc = "loop"
    /\ LoopGuard(heightLeft)
    /\ position' = NextPosition(heightLeft, imgHeight)
    /\ pdfPages' = AddImage(pdfPages, position')
    /\ heightLeft' = heightLeft - pageHeight
    /\ UNCHANGED <<imgHeight, pageHeight, loopPc, loopFrame>>

\* line 418: the guard fails, the loop is left
LoopExit ==
    /\ loopPc = "loop"
    /\ ~LoopGuard(heightLeft)
    /\ loopPc' = "done"
    /\ UNCHANGED <<imgHeight, pageHeight, heightLeft, position, pdfPages, loopFrame>>

NextLoop ==
    \/ PlaceFirstPage
    \/ LoopIteration
    \/ LoopExit


(***************************************************************************)
(* THE HEADLESS PATH: convertHTMLToPDF of pdf-converter.js (90-191).       *)
(* JavaScript values are records [t |-> type, v |-> value].                *)
(***************************************************************************)
Str(s) == [t |-> "string", v |-> s]
Num(n) == [t |-> "number", v |-> n]
Undefined == [t |-> "undefined", v |-> ""]

\* JavaScript truthiness of the values above (the operand of `!`).
Truthy(x) ==
    CASE x.t = "string" -> x.v # ""
      [] x.t = "number" -> x.v # "0"
      [] OTHER -> FALSE

\* Arguments a caller may pass.
HtmlArgs == {Str(""), Str("<h1>Hi</h1>"), Num("42")}
PathArgs == {Str(""), Str("out.pdf"), Undefined}

\* lines 92-97: the two validation tests, in order; "" when the input passes.
ValidationErrorHtmlOnly(htmlContent, outputPath) ==
    IF ~Truthy(htmlContent) \/ htmlContent.t # "string"
    THEN "htmlContent must be a non-empty string"
    ELSE ""
ValidationError(htmlContent, outputPath) ==
    IF ~Truthy(htmlContent) \/ htmlContent.t # "string"
    THEN "htmlContent must be a non-empty string"
    ELSE IF ~Truthy(outputPath) \/ outputPath.t # "string"
    THEN "outputPath must be a non-empty string"
    ELSE ""

NoCompletion == [kind |-> "none", value |-> Undefined]
Return(x) == [kind |-> "return", value |-> x]
Throw(e) == [kind |-> "throw", value |-> Str(e)]

Pending == [kind |-> "pending", value |-> Undefined]
\* How the async function's promise settles on a completion of its body.
Settle(completion) ==
    IF completion.kind = "return"
    THEN [kind |-> "resolved", value |-> completion.value]
    ELSE [kind |-> "rejected", value |-> completion.value]

\* A call on entry: its arguments, `let browser` unassigned (0), the try
\* statement not completed, the promise pending, nothing invoked yet.
NewCall(h, o) ==
    [pc |-> "entry", htmlContent |-> h, outputPath |-> o,
     browser |-> 0, completion |-> NoCompletion, result |-> Pending,
     log |-> <<>>]

\* The command-line program before main() runs: no exit code yet (-1).
NewProcess == [pc |-> "start", args |-> <<>>, exitCode |-> -1]

\* No call has been made, no browser session exists, main() has not run.
InitNode ==
    /\ calls = <<>>
    /\ browsers = <<>>
    /\ cli = NewProcess

Calls == 1..MaxCalls

\* lines 178-190: the catch block rethrows, then the finally block runs with
\* `completion` pending: it awaits browser.close() when a browser was assigned,
\* and otherwise the promise settles at once.
FinallyOnSuccessOnly(c, completion) ==
    IF c.browser # 0 /\ completion.kind = "return"
    THEN [c EXCEPT !.pc = "close", !.completion = completion,
                   !.log = Append(@, "close")]
    ELSE [c EXCEPT !.pc = "settled", !.completion = completion,
                   !.result = Settle(completion)]
Finally(c, completion) ==
    IF c.browser # 0
    THEN [c EXCEPT !.pc = "close", !.completion = completion,
                   !.log = Append(@, "close")]
    ELSE [c EXCEPT !.pc = "settled", !.completion = completion,
                   !.result = Settle(completion)]

\* lines 90-134: the call validates its arguments and, if they pass, runs up to
\* its first await, which invokes puppeteer.launch.
Enter(h, o) ==
    LET c == NewCall(h, o)
        e == ValidationError(h, o)
    IN  IF e # ""
        THEN [c EXCEPT !.pc = "settled", !.completion = Throw(e),
                       !.result = Settle(Throw(e))]
        ELSE [c EXCEPT !.pc = "launch", !.log = Append(@, "launch")]

\* A caller of the module calls convertHTMLToPDF(h, o).
Invoke(h, o) ==
    /\ host = "node"
    /\ Len(calls) < MaxCalls
    /\ calls' = Append(calls, Enter(h, o))
    /\ UNCHANGED <<browsers, cli, nodeFrame>>

\* lines 123-138: puppeteer.launch settles; on success the session is assigned
\* to `browser` and browser.newPage is invoked.
LaunchSettles(i, ok) ==
    /\ i \in DOMAIN calls
    /\ calls[i].pc = "launch"
    /\ IF ok
       THEN /\ browsers' = Append(browsers, "open")
            /\ calls' = [calls EXCEPT ![i] =
                   [@ EXCEPT !.pc = "newPage", !.browser = Len(browsers) + 1,
                             !.log = Append(@, "newPage")]]
       ELSE /\ calls' = [calls EXCEPT ![i] = Finally(@, Throw("launch failed"))]
            /\ UNCHANGED browsers
    /\ UNCHANGED <<cli, nodeFrame>>

\* lines 138-149: newPage settles; on success processHTMLContent runs (a total
\* string function) and page.setContent is invoked.
NewPageSettles(i, ok) ==
    /\ i \in DOMAIN calls
    /\ calls[i].pc = "newPage"
    /\ calls' = [calls EXCEPT ![i] =
           IF ok
           THEN [@ EXCEPT !.pc = "setContent",
                          !.log = @ \o <<"processHTMLContent", "setContent">>]
           ELSE Finally(@, Throw("newPage failed"))]
    /\ UNCHANGED <<browsers, cli, nodeFrame>>

\* lines 147-173: setContent settles; on success page.pdf is invoked.
SetContentSettles(i, ok) ==
    /\ i \in DOMAIN calls
    /\ calls[i].pc = "setContent"
    /\ calls' = [calls EXCEPT ![i] =
           IF ok
           THEN [@ EXCEPT !.pc = "pdf", !.log = Append(@, "pdf")]
           ELSE Finally(@, Throw("setContent failed"))]
    /\ UNCHANGED <<browsers, cli, nodeFrame>>

\* lines 173-176: page.pdf settles; on success the body returns outputPath.
PdfSettles(i, ok) ==
    /\ i \in DOMAIN calls
    /\ calls[i].pc = "pdf"
    /\ calls' = [calls EXCEPT ![i] =
           IF ok
           THEN Finally(@, Return(@.outputPath))
           ELSE Finally(@, Throw("pdf failed"))]
    /\ UNCHANGED <<browsers, cli, nodeFrame>>

\* (a variant with one `browser` variable for all calls)
CloseSettlesLastLaunched(i, ok) ==
    /\ i \in DOMAIN calls
    /\ calls[i].pc = "close"
    /\ IF ok
       THEN /\ browsers' = [browsers EXCEPT ![Len(browsers)] = "closed"]
            /\ calls' = [calls EXCEPT ![i] =
                   [@ EXCEPT !.pc = "settled",
                             !.result = Settle(calls[i].completion)]]
       ELSE /\ calls' = [calls EXCEPT ![i] =
                   [@ EXCEPT !.pc = "settled",
                             !.result = Settle(Throw("close failed"))]]
            /\ UNCHANGED browsers
    /\ UNCHANGED <<cli, nodeFrame>>

\* lines 186-190: the awaited browser.close() settles.  When it resolves, the
\* pending completion of the try/catch (kept in `completion`) takes effect;
\* when it rejects, its error settles the promise instead (a throw inside
\* finally replaces the pending completion).
CloseSettles(i, ok) ==
    /\ i \in DOMAIN calls
    /\ calls[i].pc = "close"
    /\ IF ok
       THEN /\ browsers' = [browsers EXCEPT ![calls[i].browser] = "closed"]
            /\ calls' = [calls EXCEPT ![i] =
                   [@ EXCEPT !.pc = "settled",
                             !.result = Settle(calls[i].completion)]]
       ELSE /\ calls' = [calls EXCEPT ![i] =
                   [@ EXCEPT !.pc = "settled",
                             !.result = Settle(Throw("close failed"))]]
            /\ UNCHANGED browsers
    /\ UNCHANGED <<cli, nodeFrame>>

\* ---- the command line: main(), lines 580-671 and 685-691 ----
\* process.argv.slice(2): no argument, one, or the input file ('-' is the
\* standard input), the output file and options.
ArgLists ==
    {<<>>, <<"in.html">>, <<"in.html", "out.pdf">>, <<"-", "out.pdf">>,
     <<"in.html", "">>, <<"in.html", "out.pdf", "--no-fonts">>}

\* What the input file or the standard input may hold.
FileContents == {"", "<h1>Hi</h1>"}

\* process.exit(code), and the exit of a process whose main() has returned
\* with nothing left to run (code 0).
Exit(p, code) == [p EXCEPT !.pc = "exited", !.exitCode = code]

\* lines 665-670: the catch block of main
MainCatchExitsZero(p) == Exit(p, 0)
MainCatch(p) == Exit(p, 1)

\* lines 685-687 and 580-656: main() runs to its first await: the usage text
\* and exit code 1 with fewer than two arguments, else the options are parsed
\* and the input is read.
MainStarts(args) ==
    /\ host = "cli"
    /\ cli.pc = "start"
    /\ cli' = IF Len(args) < 2
              THEN Exit([cli EXCEPT !.args = args], 1)
              ELSE [cli EXCEPT !.pc = "read", !.args = args]
    /\ UNCHANGED <<calls, browsers, nodeFrame>>

\* lines 644-661: the read settles.  fs.readFile may reject (the catch block
\* runs); the standard input resolves at its end.  With the content,
\* convertHTMLToPDF(htmlContent, outputFile, config) is called and awaited.
ReadSettles(ok, content) ==
    /\ cli.pc = "read"
    /\ IF ~ok /\ cli.args[1] # "-"
       THEN /\ cli' = MainCatch(cli)
            /\ UNCHANGED calls
       ELSE /\ cli' = [cli EXCEPT !.pc = "convert"]
            /\ calls' = Append(calls, Enter(Str(content), Str(cli.args[2])))
    /\ UNCHANGED <<browsers, nodeFrame>>

\* lines 661-670: the awaited call settles: main returns and the process
\* ends with code 0, or the catch block runs.
ConvertSettles ==
    /\ cli.pc = "convert"
    /\ calls[Len(calls)].pc = "settled"
    /\ cli' = IF calls[Len(calls)].result.kind = "resolved"
              THEN Exit(cli, 0)
              ELSE MainCatch(cli)
    /\ UNCHANGED <<calls, browsers, nodeFrame>>

NextNode ==
    \/ \E h \in HtmlArgs, o \in PathArgs : Invoke(h, o)
    \/ \E args \in ArgLists : MainStarts(args)
    \/ \E ok \in BOOLEAN, content \in FileContents : ReadSettles(ok, content)
    \/ ConvertSettles
    \/ \E i \in Calls, ok \in BOOLEAN : LaunchSettles(i, ok)
    \/ \E i \in Calls, ok \in BOOLEAN : NewPageSettles(i, ok)
    \/ \E i \in Calls, ok \in BOOLEAN : SetContentSettles(i, ok)
    \/ \E i \in Calls, ok \in BOOLEAN : PdfSettles(i, ok)
    \/ \E i \in Calls, ok \in BOOLEAN : CloseSettles(i, ok)


(***************************************************************************)
(* THE POPUP (popup.js).  One conversion is one chain of callbacks; the    *)
(* popup is single-threaded, so every handler below is one atomic step     *)
(* (with the promise reactions that run before the next task).             *)
(*                                                                         *)
(* Environment: a promise may reject, a script may fail to load, a chrome  *)
(* callback may find chrome.runtime.lastError set, canvas.toDataURL and    *)
(* atob may throw.  chrome.downloads.download reports its failures through *)
(* lastError in the callback; with the string url and filename the code    *)
(* passes it does not throw synchronously.                                 *)
(***************************************************************************)

\* ---- strings: startsWith / includes over the strings the model uses ----
BlobUrl == "blob:https://example.com/1f6c"
AccessErrorMessage == "Cannot access contents of url"
OtherErrorMessage == "The tab was closed"

\* s.startsWith(p), tabulated for the strings above and the tab URLs below.
StartsWith(s, p) ==
    <<s, p>> \in {<<"chrome://extensions", "chrome://">>,
                  <<"chrome-extension://abcd/popup.html", "chrome-extension://">>,
                  <<BlobUrl, "blob:">>}

\* s.includes(p), tabulated likewise.
Includes(s, p) ==
    <<s, p>> \in {<<AccessErrorMessage, "Cannot access contents">>}

\* ---- the textarea's text: a sequence of characters ----
Whitespace == {" ", "\n"}

RECURSIVE TrimStart(_)
TrimStart(s) ==
    IF s # <<>> /\ Head(s) \in Whitespace THEN TrimStart(Tail(s)) ELSE s

RECURSIVE TrimEnd(_)
TrimEnd(s) ==
    IF s # <<>> /\ s[Len(s)] \in Whitespace
    THEN TrimEnd(SubSeq(s, 1, Len(s) - 1))
    ELSE s

\* String.prototype.trim (line 482)
Trim(s) == TrimEnd(TrimStart(s))

\* What the user may have typed into #htmlInput.
HtmlInputs == {<<>>, <<" ">>, <<"\n", " ">>, <<"a">>, <<" ", "a">>, <<"a", " ">>}

\* ---- what the platform may hand to the callbacks ----
\* chrome.tabs.query: undefined, no tab, or one active tab with its url.
TabUrls == {Undefined, Str("chrome://extensions"),
            Str("chrome-extension://abcd/popup.html"), Str("https://example.com/a")}
TabResults ==
    {[defined |-> FALSE, list |-> <<>>], [defined |-> TRUE, list |-> <<>>]}
    \cup {[defined |-> TRUE, list |-> <<[id |-> 1, url |-> u]>>] : u \in TabUrls}

\* chrome.scripting.executeScript: chrome.runtime.lastError ("" when unset) and
\* the injection results (getPageContent returns false or a blob URL, 119-153).
False == [t |-> "boolean", v |-> "false"]
ScriptResults ==
    {[lastError |-> e, defined |-> FALSE, list |-> <<>>] :
        e \in {AccessErrorMessage, OtherErrorMessage}}
    \cup {[lastError |-> "", defined |-> FALSE, list |-> <<>>]}
    \cup {[lastError |-> "", defined |-> TRUE, list |-> <<[result |-> r]>>] :
        r \in {False, Str(BlobUrl)}}

\* ---- the status element ----
BlankStatus == [text |-> "", type |-> "", by |-> 0]

\* showStatus(message, type), 628-638, called on behalf of conversion c
\* (0: of no conversion): the text and class are set and a success message
\* arms a 3-second timer that will blank the element.
ShowStatus(message, type, c) ==
    /\ status' = [text |-> message, type |-> type, by |-> c]
    /\ clearTimers' = IF type = "success" THEN clearTimers + 1 ELSE clearTimers

\* lines 633-636: a 3-second timer armed by a success message fires.
StatusTimerFires ==
    /\ clearTimers > 0
    /\ status' = BlankStatus
    /\ clearTimers' = clearTimers - 1
    /\ UNCHANGED <<conv, popupFrame>>

\* ---- conversions ----
\* A conversion as a click starts it: no container, no object URL, nothing
\* reported, no stage run.
NewConversion ==
    [pc |-> "click", type |-> "", container |-> "none", htmlUrl |-> "none",
     pdfUrl |-> "none", reported |-> <<>>, stages |-> <<>>]

\* The popup has just opened: no conversion, a blank status, no timer.
InitPopup ==
    /\ conv = <<>>
    /\ status = BlankStatus
    /\ clearTimers = 0

\* Conversion c has callbacks outstanding.
InFlight(c) == conv[c].pc # "done"

\* The conversion made its terminal report (a success or error showStatus).
\* `type`, the argument of convertToPDF, is read for the last time when
\* executeScript is called; the model forgets it once the callback has run.
Finished(r, outcome) ==
    [r EXCEPT !.pc = "done", !.type = "", !.reported = Append(@, outcome)]

\* document.body.removeChild(tempDiv)
RemoveContainer(r) == [r EXCEPT !.container = "removed"]

\* URL.revokeObjectURL(url): a live URL becomes revoked.
Revoke(u) == IF u = "live" THEN "revoked" ELSE u

\* lines 350-360 and 363-439: the off-screen div is appended to the document
\* and the first library script is appended to the head.
Mount(r) ==
    [r EXCEPT !.pc = "script1", !.container = "attached",
              !.stages = Append(@, "Rendering")]

\* lines 29-35 and 45-50: a click on "convert current page" or "convert
\* selection" runs convertToPDF(type) up to the chrome.tabs.query call.
ClickConvert(type) ==
    /\ host = "extension"
    /\ Len(conv) < MaxConversions
    /\ conv' = Append(conv, [NewConversion EXCEPT !.pc = "tabsQuery", !.type = type])
    /\ ShowStatus("Converting to PDF...", "loading", Len(conv) + 1)
    /\ UNCHANGED popupFrame

\* (a variant that tests the text as typed)
ClickConvertHTMLUntrimmed(text) ==
    /\ host = "extension"
    /\ IF text = <<>>
       THEN /\ ShowStatus("Please enter some HTML code", "error", 0)
            /\ UNCHANGED conv
       ELSE /\ Len(conv) < MaxConversions
            /\ conv' = Append(conv,
                   Mount([NewConversion EXCEPT !.stages = Append(@, "Preprocessing")]))
            /\ ShowStatus("Generating PDF...", "loading", Len(conv) + 1)
    /\ UNCHANGED popupFrame

\* lines 37-39, 480-503 and 338-360: a click on "convert HTML" runs
\* convertHTMLToPDF; with non-blank text it goes on through
\* generatePDFFromHTML, whose already-resolved promise mounts the container
\* before the next task.
ClickConvertHTML(text) ==
    /\ host = "extension"
    /\ IF Trim(text) = <<>>
       THEN /\ ShowStatus("Please enter some HTML code", "error", 0)
            /\ UNCHANGED conv
       ELSE /\ Len(conv) < MaxConversions
            /\ conv' = Append(conv,
                   Mount([NewConversion EXCEPT !.stages = Append(@, "Preprocessing")]))
            /\ ShowStatus("Generating PDF...", "loading", Len(conv) + 1)
    /\ UNCHANGED popupFrame

\* line 59: the tab cannot be read
InaccessibleChromeOnly(tab) ==
    \/ ~Truthy(tab.url)
    \/ StartsWith(tab.url.v, "chrome://")
Inaccessible(tab) ==
    \/ ~Truthy(tab.url)
    \/ StartsWith(tab.url.v, "chrome://")
    \/ StartsWith(tab.url.v, "chrome-extension://")

\* lines 50-69: the chrome.tabs.query callback
TabsQueryCallback(c, tabs) ==
    /\ c \in DOMAIN conv
    /\ conv[c].pc = "tabsQuery"
    /\ IF ~tabs.defined \/ Len(tabs.list) = 0
       THEN /\ conv' = [conv EXCEPT ![c] = Finished(@, "error")]
            /\ ShowStatus("Error: No active tab found", "error", c)
       ELSE IF Inaccessible(tabs.list[1])
       THEN /\ conv' = [conv EXCEPT ![c] = Finished(@, "error")]
            /\ ShowStatus("Cannot access this page. Try a regular website.", "error", c)
       ELSE /\ conv' = [conv EXCEPT ![c] =
                   [@ EXCEPT !.pc = "executeScript",
                             !.stages = Append(@, "Extracting")]]
            /\ UNCHANGED <<status, clearTimers>>
    /\ UNCHANGED popupFrame

\* lines 338-348: generatePDFFromHTML with a blob URL shows the loading
\* status and starts the fetch.
StartFetch(r) == [r EXCEPT !.pc = "fetch", !.type = ""]

\* lines 69-90 (and 142-149 in the page): the executeScript callback.  A blob
\* URL among the results was created by getPageContent, after it built the
\* complete document.
ExecuteScriptCallback(c, res) ==
    /\ c \in DOMAIN conv
    /\ conv[c].pc = "executeScript"
    /\ IF res.lastError # ""
       THEN /\ conv' = [conv EXCEPT ![c] = Finished(@, "error")]
            /\ IF Includes(res.lastError, "Cannot access contents")
               THEN ShowStatus("Cannot access this page. Try a regular website or use HTML Input tab.", "error", c)
               ELSE ShowStatus("Error: " \o res.lastError, "error", c)
       ELSE IF res.defined /\ Len(res.list) > 0 /\ Truthy(res.list[1].result)
       THEN IF res.list[1].result = False
            THEN /\ conv' = [conv EXCEPT ![c] = Finished(@, "error")]
                 /\ ShowStatus("Error: Could not process page content. Try selecting text or use HTML Input tab.", "error", c)
            ELSE /\ conv' = [conv EXCEPT ![c] =
                        StartFetch([@ EXCEPT !.htmlUrl = "live",
                                      !.stages = Append(@, "Preprocessing")])]
                 /\ ShowStatus("Generating PDF...", "loading", c)
       ELSE /\ conv' = [conv EXCEPT ![c] = Finished(@, "error")]
            /\ ShowStatus("Error: Could not process page content", "error", c)
    /\ UNCHANGED popupFrame

\* lines 343-345 and 440-442: fetch() settles.  Fulfilled: response.text() is
\* called.  Rejected: the finally-reaction revokes the URL and the catch
\* reports the error.
FetchSettles(c, ok) ==
    /\ c \in DOMAIN conv
    /\ conv[c].pc = "fetch"
    /\ IF ok
       THEN /\ conv' = [conv EXCEPT ![c] = [@ EXCEPT !.pc = "text"]]
            /\ UNCHANGED <<status, clearTimers>>
       ELSE /\ conv' = [conv EXCEPT ![c] =
                   Finished([@ EXCEPT !.htmlUrl = Revoke(@)], "error")]
            /\ ShowStatus("Error fetching HTML content: ", "error", c)
    /\ UNCHANGED popupFrame

\* lines 344-360 and 440-442: response.text() settles; the finally-reaction
\* revokes the URL either way, then the container is mounted or the catch
\* reports the error.
TextSettles(c, ok) ==
    /\ c \in DOMAIN conv
    /\ conv[c].pc = "text"
    /\ IF ok
       THEN /\ conv' = [conv EXCEPT ![c] = Mount([@ EXCEPT !.htmlUrl = Revoke(@)])]
            /\ UNCHANGED <<status, clearTimers>>
       ELSE /\ conv' = [conv EXCEPT ![c] =
                   Finished([@ EXCEPT !.htmlUrl = Revoke(@)], "error")]
            /\ ShowStatus("Error fetching HTML content: ", "error", c)
    /\ UNCHANGED popupFrame

\* lines 365-368: script1.onerror
Script1ErrorSilent(c) ==
    /\ c \in DOMAIN conv
    /\ conv[c].pc = "script1"
    /\ conv' = [conv EXCEPT ![c] = RemoveContainer([@ EXCEPT !.pc = "done"])]
    /\ UNCHANGED <<status, clearTimers, popupFrame>>
Script1Error(c) ==
    /\ c \in DOMAIN conv
    /\ conv[c].pc = "script1"
    /\ conv' = [conv EXCEPT ![c] = RemoveContainer(Finished(@, "error"))]
    /\ ShowStatus("Error: Failed to load html2canvas library", "error", c)
    /\ UNCHANGED popupFrame

\* lines 377-438: script1.onload installs script2.onload and appends script2
Script1Load(c) ==
    /\ c \in DOMAIN conv
    /\ conv[c].pc = "script1"
    /\ conv' = [conv EXCEPT ![c] = [@ EXCEPT !.pc = "script2"]]
    /\ UNCHANGED <<status, clearTimers, popupFrame>>

\* lines 372-375: script2.onerror
Script2ErrorKeepsContainer(c) ==
    /\ c \in DOMAIN conv
    /\ conv[c].pc = "script2"
    /\ conv' = [conv EXCEPT ![c] = Finished(@, "error")]
    /\ ShowStatus("Error: Failed to load jsPDF library", "error", c)
    /\ UNCHANGED popupFrame
Script2Error(c) ==
    /\ c \in DOMAIN conv
    /\ conv[c].pc = "script2"
    /\ conv' = [conv EXCEPT ![c] = RemoveContainer(Finished(@, "error"))]
    /\ ShowStatus("Error: Failed to load jsPDF library", "error", c)
    /\ UNCHANGED popupFrame

\* lines 378-380 and 435: script2.onload arms the 100 ms timer
Script2Load(c) ==
    /\ c \in DOMAIN conv
    /\ conv[c].pc = "script2"
    /\ conv' = [conv EXCEPT ![c] = [@ EXCEPT !.pc = "timer"]]
    /\ UNCHANGED <<status, clearTimers, popupFrame>>

\* lines 380-400: the 100 ms timer fires; the libraries are checked and
\* html2canvas is called.
LibraryTimerFiresNoReturn(c, libs) ==
    /\ c \in DOMAIN conv
    /\ conv[c].pc = "timer"
    /\ IF libs \in {"html2canvas undefined", "jspdf undefined"}
       THEN /\ conv' = [conv EXCEPT ![c] =
                   [RemoveContainer(Finished(@, "error")) EXCEPT !.pc = "html2canvas"]]
            /\ ShowStatus("Error: html2canvas library failed to load", "error", c)
       ELSE /\ conv' = [conv EXCEPT ![c] = [@ EXCEPT !.pc = "html2canvas"]]
            /\ UNCHANGED <<status, clearTimers>>
    /\ UNCHANGED popupFrame
LibraryTimerFires(c, libs) ==
    /\ c \in DOMAIN conv
    /\ conv[c].pc = "timer"
    /\ CASE libs = "html2canvas undefined" ->
              /\ conv' = [conv EXCEPT ![c] = RemoveContainer(Finished(@, "error"))]
              /\ ShowStatus("Error: html2canvas library failed to load", "error", c)
         [] libs = "jspdf undefined" ->
              /\ conv' = [conv EXCEPT ![c] = RemoveContainer(Finished(@, "error"))]
              /\ ShowStatus("Error: jsPDF library failed to load", "error", c)
         [] OTHER ->
              /\ conv' = [conv EXCEPT ![c] = [@ EXCEPT !.pc = "html2canvas"]]
              /\ UNCHANGED <<status, clearTimers>>
    /\ UNCHANGED popupFrame

\* lines 445-463 and 473-475: downloadPDF up to the chrome.downloads.download
\* call; atob is the call of its try block that may throw.
DownloadPDF(r, atobThrows) ==
    IF atobThrows
    THEN Finished([r EXCEPT !.stages = Append(@, "Delivering")], "error")
    ELSE [r EXCEPT !.pc = "download", !.pdfUrl = "live",
                   !.stages = Append(@, "Delivering")]

\* lines 400-434: the html2canvas promise settles.  Fulfilled: the PDF is
\* assembled page by page, downloadPDF is called and the container removed;
\* an exception (canvas.toDataURL on a tainted canvas) or a rejection goes to
\* the catch, which reports the error and removes the container.
Html2canvasSettles(c, how) ==
    /\ c \in DOMAIN conv
    /\ conv[c].pc = "html2canvas"
    /\ CASE how \in {"rejected", "toDataURL throws"} ->
              /\ conv' = [conv EXCEPT ![c] = RemoveContainer(Finished(@, "error"))]
              /\ ShowStatus("Error generating PDF: ", "error", c)
         [] how = "atob throws" ->
              /\ conv' = [conv EXCEPT ![c] = RemoveContainer(DownloadPDF(
                     [@ EXCEPT !.stages = @ \o <<"Paginating", "Assembling">>], TRUE))]
              /\ ShowStatus("Error creating PDF: ", "error", c)
         [] OTHER ->
              /\ conv' = [conv EXCEPT ![c] = RemoveContainer(DownloadPDF(
                     [@ EXCEPT !.stages = @ \o <<"Paginating", "Assembling">>], FALSE))]
              /\ UNCHANGED <<status, clearTimers>>
    /\ UNCHANGED popupFrame

\* lines 464-472: the chrome.downloads.download callback
DownloadCallbackRevokesOnSuccessOnly(c, lastError) ==
    /\ c \in DOMAIN conv
    /\ conv[c].pc = "download"
    /\ IF lastError
       THEN /\ conv' = [conv EXCEPT ![c] = Finished(@, "error")]
            /\ ShowStatus("Error downloading PDF: ", "error", c)
       ELSE /\ conv' = [conv EXCEPT ![c] =
                   [Finished(@, "success") EXCEPT !.pdfUrl = Revoke(@)]]
            /\ ShowStatus("PDF downloaded successfully!", "success", c)
    /\ UNCHANGED popupFrame
DownloadCallback(c, lastError) ==
    /\ c \in DOMAIN conv
    /\ conv[c].pc = "download"
    /\ IF lastError
       THEN /\ conv' = [conv EXCEPT ![c] =
                   [Finished(@, "error") EXCEPT !.pdfUrl = Revoke(@)]]
            /\ ShowStatus("Error downloading PDF: ", "error", c)
       ELSE /\ conv' = [conv EXCEPT ![c] =
                   [Finished(@, "success") EXCEPT !.pdfUrl = Revoke(@)]]
            /\ ShowStatus("PDF downloaded successfully!", "success", c)
    /\ UNCHANGED popupFrame

Conversions == 1..MaxConversions

\* The callbacks of conversion c: what the platform owes it.
Callbacks(c) ==
    \/ \E tabs \in TabResults : TabsQueryCallback(c, tabs)
    \/ \E res \in ScriptResults : ExecuteScriptCallback(c, res)
    \/ \E ok \in BOOLEAN : FetchSettles(c, ok)
    \/ \E ok \in BOOLEAN : TextSettles(c, ok)
    \/ Script1Load(c)
    \/ Script1Error(c)
    \/ Script2Load(c)
    \/ Script2Error(c)
    \/ \E libs \in {"ok", "html2canvas undefined", "jspdf undefined"} :
           LibraryTimerFires(c, libs)
    \/ \E how \in {"ok", "rejected", "toDataURL throws", "atob throws"} :
           Html2canvasSettles(c, how)
    \/ \E e \in BOOLEAN : DownloadCallback(c, e)

NextPopup ==
    \/ \E type \in {"currentPage", "selection"} : ClickConvert(type)
    \/ \E text \in HtmlInputs : ClickConvertHTML(text)
    \/ \E c \in Conversions : Callbacks(c)
    \/ StatusTimerFires

(***************************************************************************)
(* THE HTML PREPROCESSOR: processHTMLContent, generateCSS,                 *)
(* fixCenteringIssues and renderHTMLCodeBlocks of pdf-converter.js, and    *)
(* createCompleteHTMLDocument of popup.js.                                 *)
(*                                                                         *)
(* A string is the sequence of its lexical tokens: a tag (from '<' to the  *)
(* next '>'), a run of white space between two tags (Space), or a run of   *)
(* text.  Every regular expression of the code matches whole tags, so each *)
(* is tabulated as the set of the model's tokens it matches; the matching  *)
(* itself (leftmost match, lazy quantifier, global replace, first          *)
(* occurrence for a string pattern) is computed token by token.            *)
(***************************************************************************)
Space == "\n"

\* ---- the tags the inputs are built from ----
DivContent == "<div class=\"content\">"
DivContentStyled == "<div class=\"content\" style=\"color:red\">"
DivPlain == "<div>"
DivStyled == "<div style=\"color:red\">"
DivEmptyStyle == "<div style=\"\">"
DivAuto == "<div style=\"margin:auto\">"
DivZeroAuto == "<div style=\"margin: 0 auto\">"
DivSpacedAuto == "<div style=\"margin : auto\">"
\* the two styled divs of the preview container, part_002 534-535
DivPreviewBox == "<div style=\"border: 1px solid #ddd; padding: 10px; margin: 10px 0; background-color: #f9f9f9;\">"
DivPreviewLabel == "<div style=\"font-weight: bold; margin-bottom: 5px; color: #666;\">"
PreviewLabel == "Rendered HTML Preview:"

\* /\s*/ between tags
ReSpace == {Space}
\* /<html[^>]*>/i, /<head[^>]*>/i (which also matches <header>), /<body[^>]*>/i
ReHtmlOpen == {"<html>", "<HTML>", "<html lang=\"en\">"}
ReHeadOpen == {"<head>", "<HEAD>", "<header>"}
ReBodyOpen == {"<body>", "<BODY>", "<body class=\"x\">"}
\* /<div[^>]*>/i
ReDivOpen ==
    {DivContent, DivContentStyled, DivPlain, DivStyled, DivEmptyStyle, DivAuto,
     DivZeroAuto, DivSpacedAuto, DivPreviewBox, DivPreviewLabel}
\* /<div[^>]*class\s*=\s*["']content["'][^>]*>/i
ReContentDiv == {DivContent, DivContentStyled}
\* /<div[^>]*style\s*=\s*["'][^"']*margin\s*:\s*[^"']*auto[^"']*["'][^>]*>/i
ReAutoMarginDiv == {DivAuto, DivZeroAuto, DivSpacedAuto}
\* /<\/div>/i
ReCloseDiv == {"</div>", "</DIV>"}
\* /<pre>/i, /<code>/i, /<\/code>/i, /<\/pre>/i
RePreOpen == {"<pre>", "<PRE>"}
ReCodeOpen == {"<code>", "<CODE>"}
ReCodeClose == {"</code>", "</CODE>"}
RePreClose == {"</pre>", "</PRE>"}

\* The tokens that are tags: each contains '<' and '>'.
Tags ==
    ReHtmlOpen \cup ReHeadOpen \cup ReBodyOpen \cup ReDivOpen \cup ReCloseDiv
    \cup RePreOpen \cup ReCodeOpen \cup ReCodeClose \cup RePreClose
    \cup {"<!DOCTYPE html>", "</html>", "</HTML>", "</head>", "</HEAD>",
          "</header>", "</body>", "</BODY>", "<title>", "</title>",
          "<meta charset=\"UTF-8\">",
          "<meta name=\"viewport\" content=\"width=device-width, initial-scale=1.0\">",
          "<style>", "</style>", "<h1>", "</h1>", "<code class=\"x\">"}

\* String.prototype.includes over one token, for the substrings the code asks.
TokenIncludes(tok, sub) ==
    CASE sub = "<" -> tok \in Tags \cup {"1 < 2"}
      [] sub = ">" -> tok \in Tags \cup {"2 > 1"}
      [] sub = "style=" ->
            tok \in {DivContentStyled, DivStyled, DivEmptyStyle, DivAuto, DivZeroAuto,
                     DivSpacedAuto, DivPreviewBox, DivPreviewLabel}
      [] sub = "style=\"\"" -> tok = DivEmptyStyle
      [] sub = "margin:" -> tok \in {DivAuto, DivZeroAuto, DivPreviewBox}
      [] sub = "auto" -> tok \in {DivAuto, DivZeroAuto, DivSpacedAuto}
      [] OTHER -> FALSE

\* String.prototype.includes over a string.
StringIncludes(s, sub) == \E k \in DOMAIN s : TokenIncludes(s[k], sub)

\* RegExp.prototype.test for a one-tag pattern.
Test(re, s) == \E k \in DOMAIN s : s[k] \in re

\* The token at position k; "" past the end.
At(s, k) == IF k \in DOMAIN s THEN s[k] ELSE ""

\* /\s*/ from position k: the first position it does not consume.
RECURSIVE SkipSpace(_, _)
SkipSpace(s, k) ==
    IF k <= Len(s) /\ s[k] \in ReSpace THEN SkipSpace(s, k + 1) ELSE k

\* ---- generateCSS, part_002 294-433 ----
Configs == [includeFonts : BOOLEAN, renderCodeBlocks : BOOLEAN, margin : {10, 25}]
DefaultConfig == [includeFonts |-> TRUE, renderCodeBlocks |-> TRUE, margin |-> 10]

\* The text of the style element: the @import when fonts are included, and
\* the margin.
CssText(cfg) ==
    (IF cfg.includeFonts THEN "@import url(Liberation+Serif); " ELSE "")
    \o "body { margin: " \o ToString(cfg.margin) \o "mm; } @media print { body { padding: "
    \o ToString(cfg.margin) \o "mm; } }"

GenerateCSS(cfg) == <<Space, "<style>", CssText(cfg), "</style>">>

\* ---- fixCenteringIssues, part_002 455-499 ----
\* The lazy /[\s\S]*?<\/div>)\s*<\/div>/ from position k: the first closing div
\* that is followed, after white space, by another closing div; 0 if none.
RECURSIVE FirstInnerClose(_, _)
FirstInnerClose(s, k) ==
    IF k > Len(s) THEN 0
    ELSE IF s[k] \in ReCloseDiv /\ At(s, SkipSpace(s, k + 1)) \in ReCloseDiv THEN k
    ELSE FirstInnerClose(s, k + 1)

NoMatch == [found |-> FALSE, inner |-> 0, close |-> 0, end |-> 0]

\* A match of wrapper \s* (autoMarginDiv [\s\S]*? </div>) \s* </div> that
\* begins at position p: group 1 is s[inner..close], the match ends at `end`.
MatchWrapper(s, p, wrapper) ==
    LET i == SkipSpace(s, p + 1)
        e == IF At(s, i) \in ReAutoMarginDiv THEN FirstInnerClose(s, i + 1) ELSE 0
    IN  IF s[p] \in wrapper /\ e # 0
        THEN [found |-> TRUE, inner |-> i, close |-> e, end |-> SkipSpace(s, e + 1)]
        ELSE NoMatch

\* line 458 and line 461
CenteringPattern(s, p) == MatchWrapper(s, p, ReContentDiv)
GeneralCenteringPattern(s, p) == MatchWrapper(s, p, ReDivOpen)

\* lines 477-495: the replacer of the general pattern.  wrapperDiv is the
\* match without group 1 and without a final lower-case </div>.
GeneralReplacer(s, p, m) ==
    LET match == SubSeq(s, p, m.end)
        innerDiv == SubSeq(s, m.inner, m.close)
        wrapperDiv ==
            SubSeq(s, p, m.inner - 1) \o SubSeq(s, m.close + 1, m.end - 1)
            \o (IF s[m.end] = "</div>" THEN <<>> ELSE <<s[m.end]>>)
        hasMinimalStyling ==
            \/ ~StringIncludes(wrapperDiv, "style=")
            \/ StringIncludes(wrapperDiv, "style=\"\"")
            \/ StringIncludes(wrapperDiv, "style=''")
        hasCenteringStyles ==
            /\ StringIncludes(innerDiv, "margin:")
            /\ (StringIncludes(innerDiv, "auto") \/ StringIncludes(innerDiv, "center"))
    IN  IF hasMinimalStyling /\ hasCenteringStyles THEN innerDiv ELSE match

\* String.prototype.replace with a global pattern, from position p on: line
\* 468 (general = FALSE, replacement '$1') and line 477 (general = TRUE).
RECURSIVE ReplaceWrappers(_, _, _)
ReplaceWrappers(s, p, general) ==
    IF p > Len(s) THEN <<>>
    ELSE LET m == IF general THEN GeneralCenteringPattern(s, p)
                  ELSE CenteringPattern(s, p)
         IN  IF m.found
             THEN (IF general THEN GeneralReplacer(s, p, m)
                   ELSE SubSeq(s, m.inner, m.close))
                  \o ReplaceWrappers(s, m.end + 1, general)
             ELSE <<s[p]>> \o ReplaceWrappers(s, p + 1, general)

FixCenteringIssues(htmlContent) ==
    ReplaceWrappers(ReplaceWrappers(htmlContent, 1, FALSE), 1, TRUE)

\* ---- renderHTMLCodeBlocks, part_002 522-548 ----
\* The lazy /([\s\S]*?)<\/code><\/pre>/i from position k: the first </code>
\* directly followed by </pre>; 0 if none.
RECURSIVE FirstCodeClose(_, _)
FirstCodeClose(s, k) ==
    IF k > Len(s) THEN 0
    ELSE IF s[k] \in ReCodeClose /\ At(s, k + 1) \in RePreClose THEN k
    ELSE FirstCodeClose(s, k + 1)

\* lines 533-537: the preview container
RenderedHTML(codeContent) ==
    <<Space, DivPreviewBox, Space, DivPreviewLabel, PreviewLabel, "</div>", Space,
      "<div>">> \o codeContent \o <<"</div>", Space, "</div>">>

\* lines 527-546: the replacer
CodeBlockReplacerAlways(match, codeContent) == match \o RenderedHTML(codeContent)
CodeBlockReplacer(match, codeContent) ==
    IF StringIncludes(codeContent, "<") /\ StringIncludes(codeContent, ">")
    THEN match \o RenderedHTML(codeContent)
    ELSE match

RECURSIVE ReplaceCodeBlocks(_, _)
ReplaceCodeBlocks(s, p) ==
    IF p > Len(s) THEN <<>>
    ELSE LET e == IF s[p] \in RePreOpen /\ At(s, p + 1) \in ReCodeOpen
                  THEN FirstCodeClose(s, p + 2) ELSE 0
         IN  IF e # 0
             THEN CodeBlockReplacer(SubSeq(s, p, e + 1), SubSeq(s, p + 2, e - 1))
                  \o ReplaceCodeBlocks(s, e + 2)
             ELSE <<s[p]>> \o ReplaceCodeBlocks(s, p + 1)

RenderHTMLCodeBlocks(htmlContent) == ReplaceCodeBlocks(htmlContent, 1)

\* ---- processHTMLContent, part_002 216-262 ----
\* String.prototype.replace with a string pattern: the first occurrence only,
\* compared exactly (case-sensitive).
RECURSIVE ReplaceFirst(_, _, _)
ReplaceFirst(s, tok, replacement) ==
    IF s = <<>> THEN <<>>
    ELSE IF Head(s) = tok THEN replacement \o Tail(s)
    ELSE <<Head(s)>> \o ReplaceFirst(Tail(s), tok, replacement)

\* lines 235-246 (and popup.js 264-334): the synthesized document
DocumentShell(style, body) ==
    <<"<!DOCTYPE html>", Space, "<html lang=\"en\">", Space, "<head>", Space,
      "<meta charset=\"UTF-8\">", Space,
      "<meta name=\"viewport\" content=\"width=device-width, initial-scale=1.0\">",
      Space, "<title>", "HTML to PDF", "</title>">>
    \o style \o <<Space, "</head>", Space, "<body>", Space>> \o body
    \o <<Space, "</body>", Space, "</html>">>

\* (a variant that gives up on input without a document structure)
ProcessHTMLContentRejectingFragments(htmlContent, cfg) ==
    LET fixed == FixCenteringIssues(htmlContent)
        hasHTML == Test(ReHtmlOpen, fixed)
        hasHead == Test(ReHeadOpen, fixed)
        hasBody == Test(ReBodyOpen, fixed)
    IN  IF ~hasHTML \/ ~hasHead \/ ~hasBody
        THEN <<>>
        ELSE ReplaceFirst(fixed, "</head>", GenerateCSS(cfg) \o <<Space, "</head>">>)

\* processHTMLContent, lines 216-262
ProcessHTMLContent(htmlContent, cfg) ==
    LET fixed == FixCenteringIssues(htmlContent)
        hasHTML == Test(ReHtmlOpen, fixed)
        hasHead == Test(ReHeadOpen, fixed)
        hasBody == Test(ReBodyOpen, fixed)
        processedHTML ==
            IF ~hasHTML \/ ~hasHead \/ ~hasBody
            THEN DocumentShell(GenerateCSS(cfg), fixed)
            ELSE ReplaceFirst(fixed, "</head>", GenerateCSS(cfg) \o <<Space, "</head>">>)
    IN  IF cfg.renderCodeBlocks THEN RenderHTMLCodeBlocks(processedHTML)
        ELSE processedHTML

\* ---- createCompleteHTMLDocument, popup.js 235-336 ----
\* The two style elements of the popup: the one spliced into a complete
\* document (244-261) and the one of the synthesized document (270-330).
PopupSplicedCss(settings) ==
    <<Space, "<style>", "body { font-family: Liberation Serif; margin: "
        \o ToString(settings.margin) \o "mm; }", "</style>">>
PopupShellCss(settings) ==
    <<Space, "<style>", "body { font-family: Liberation Serif; margin: "
        \o ToString(settings.margin) \o "mm; color: #333; }", "</style>">>

CreateCompleteHTMLDocument(html, settings) ==
    LET hasHTML == Test(ReHtmlOpen, html)
        hasHead == Test(ReHeadOpen, html)
        hasBody == Test(ReBodyOpen, html)
    IN  IF hasHTML /\ hasHead /\ hasBody
        THEN ReplaceFirst(html, "</head>", PopupSplicedCss(settings) \o <<Space, "</head>">>)
        ELSE DocumentShell(PopupShellCss(settings), html)

\* ---- the inputs ----
\* complete documents: lower case, upper case, without </head>, with
\* attributes, with <header> but no <head>, without <body>
Document(body) ==
    <<"<html>", "<head>", "</head>", "<body>">> \o body \o <<"</body>", "</html>">>
Documents ==
    {Document(<<"X">>),
     <<"<HTML>", "<HEAD>", "</HEAD>", "<BODY>", "X", "</BODY>", "</HTML>">>,
     <<"<html>", "<head>", "<body>", "X", "</body>", "</html>">>,
     <<"<html lang=\"en\">", "<head>", "<title>", "T", "</title>", "</head>",
       "<body class=\"x\">", "X", "</body>", "</html>">>,
     <<"<html>", "<body>", "<header>", "X", "</header>", "</body>", "</html>">>,
     <<"<html>", "<head>", "</head>", "X", "</html>">>}

Fragments == {<<"X">>, <<"<h1>", "Hi", "</h1>">>}

\* a wrapper div around one auto-margin div
Wrapped(wrapper, space, inner, content) ==
    <<wrapper>> \o space \o <<inner>> \o content \o <<"</div>">> \o space \o <<"</div>">>
Wrappers == {DivContent, DivContentStyled, DivPlain, DivStyled, DivEmptyStyle}
InnerContents ==
    {<<"X">>,
     <<DivPlain, "a", "</div>">>,
     <<DivPlain, DivPlain, "a", "</div>", "</div>", "b">>}
WrappedDivs ==
    {Wrapped(w, sp, i, c) :
        w \in Wrappers, sp \in {<<>>, <<Space>>}, i \in ReAutoMarginDiv,
        c \in InnerContents}

\* pre/code blocks: entity-escaped markup, raw markup, no markup, a lone '<'
Block(content) == <<"<pre>", "<code>">> \o content \o <<"</code>", "</pre>">>
Escaped == <<"&lt;h1&gt;Hi&lt;/h1&gt;">>
Raw == <<"<h1>", "Hi", "</h1>">>
CodeBlocks ==
    {Block(Escaped), Block(Raw), Block(<<"x = 1">>), Block(<<"1 < 2">>),
     Block(Raw) \o <<"X">> \o Block(<<"x = 1">>),
     <<"<PRE>", "<CODE>">> \o Raw \o <<"</CODE>", "</PRE>">>,
     <<"<pre>", Space, "<code>">> \o Raw \o <<"</code>", "</pre>">>,
     <<"<pre>", "<code class=\"x\">">> \o Raw \o <<"</code>", "</pre>">>,
     Document(Block(Escaped)), Document(Block(Raw))}

Inputs ==
    Documents \cup Fragments \cup WrappedDivs \cup CodeBlocks
    \cup {Document(Wrapped(DivContent, <<Space>>, DivAuto, <<"X">>))}

\* ---- the calls ----
\* No preprocessing is under way (behaviours of the other specifications).
PrepIdle ==
    /\ source = <<>>
    /\ config = DefaultConfig
    /\ markup = <<>>
    /\ applied = <<>>

\* A non-empty HTML string and a settings value; nothing applied yet.
InitPrep ==
    /\ source \in Inputs
    /\ config \in Configs
    /\ markup = source
    /\ applied = <<>>

\* One more call may be made; it is recorded and leaves the rest alone.
Called(name) ==
    /\ Len(applied) < MaxPasses
    /\ applied' = Append(applied, name)
    /\ UNCHANGED <<source, config, prepFrame>>

\* markup = f(markup), for each of the exported functions
ApplyFixCenteringIssues ==
    /\ markup' = FixCenteringIssues(markup)
    /\ Called("fixCenteringIssues")

ApplyRenderHTMLCodeBlocks ==
    /\ markup' = RenderHTMLCodeBlocks(markup)
    /\ Called("renderHTMLCodeBlocks")

ApplyProcessHTMLContent ==
    /\ markup' = ProcessHTMLContent(markup, config)
    /\ Called("processHTMLContent")

ApplyCreateCompleteHTMLDocument ==
    /\ markup' = CreateCompleteHTMLDocument(markup, config)
    /\ Called("createCompleteHTMLDocument")

NextPrep ==
    \/ ApplyFixCenteringIssues
    \/ ApplyRenderHTMLCodeBlocks
    \/ ApplyProcessHTMLContent
    \/ ApplyCreateCompleteHTMLDocument


(***************************************************************************)
(* THE SETTINGS FORM (popup.js 610-649): four form fields, the record      *)
(* getSettings builds from them, and chrome.storage.sync.                  *)
(***************************************************************************)
\* The value of a form field is a string; "" is a field without a value.
BlankFields == [pageSize |-> "", orientation |-> "", margin |-> "", filename |-> ""]
Decimal(n) == ToString(n)
MarginTexts == {Decimal(n) : n \in 0..MaxMargin} \cup {"", "abc", "1.5"}
FieldValues ==
    [pageSize |-> {"", "Letter"}, orientation |-> {"", "landscape"},
     margin |-> MarginTexts, filename |-> {"", "my.pdf"}]
FieldNames == {"pageSize", "orientation", "margin", "filename"}

\* parseInt(text): the leading decimal digits of the text as a number, NaN
\* when there are none.
NaN == [nan |-> TRUE, n |-> 0]
ParseInt(text) ==
    IF \E n \in 0..MaxMargin : Decimal(n) = text
    THEN [nan |-> FALSE, n |-> CHOOSE n \in 0..MaxMargin : Decimal(n) = text]
    ELSE IF text = "1.5" THEN [nan |-> FALSE, n |-> 1]
    ELSE NaN

\* a || b for a string a and for a number a: NaN, 0 and "" are falsy.
OrString(a, b) == IF a # "" THEN a ELSE b
OrNumber(a, b) == IF ~a.nan /\ a.n # 0 THEN a.n ELSE b

\* getSettings, lines 610-617
GetSettingsMarginAsEntered(f) ==
    [pageSize |-> OrString(f.pageSize, "A4"),
     orientation |-> OrString(f.orientation, "portrait"),
     margin |-> ParseInt(f.margin).n,
     filename |-> OrString(f.filename, "document.pdf")]
GetSettings(f) ==
    [pageSize |-> OrString(f.pageSize, "A4"),
     orientation |-> OrString(f.orientation, "portrait"),
     margin |-> OrNumber(ParseInt(f.margin), 10),
     filename |-> OrString(f.filename, "document.pdf")]

\* The callback of loadSettings, lines 620-625: every truthy item is written
\* to its field; `items` is <<>> when nothing is persisted.  Assigning a
\* number to a field's value stores its decimal text.
LoadItems(f, items) ==
    IF items = <<>> THEN f
    ELSE LET i == items[1]
         IN  [pageSize |-> OrString(i.pageSize, f.pageSize),
              orientation |-> OrString(i.orientation, f.orientation),
              margin |-> IF i.margin # 0 THEN Decimal(i.margin) ELSE f.margin,
              filename |-> OrString(i.filename, f.filename)]

\* The form as the popup's page declares it, and what an earlier session of
\* the popup persisted (nothing, or a record saveSettings wrote).
DeclaredFields ==
    {BlankFields,
     [pageSize |-> "A4", orientation |-> "portrait", margin |-> "10",
      filename |-> "document.pdf"]}
PersistedItems ==
    {<<>>,
     <<GetSettings(BlankFields)>>,
     <<GetSettings([pageSize |-> "Letter", orientation |-> "landscape",
                    margin |-> "5", filename |-> "my.pdf"])>>}

\* No popup is open (behaviours of the other specifications).
SettingsIdle ==
    /\ fields = BlankFields
    /\ stored = <<>>
    /\ loaded = FALSE
    /\ edits = 0
    /\ snapshot = <<>>

\* DOMContentLoaded: loadSettings has asked for the items (line 9).
InitSettings ==
    /\ fields \in DeclaredFields
    /\ stored \in PersistedItems
    /\ loaded = FALSE
    /\ edits = 0
    /\ snapshot = <<>>

\* chrome.storage.sync.get calls back, lines 620-625
LoadSettingsCallback ==
    /\ ~loaded
    /\ loaded' = TRUE
    /\ fields' = LoadItems(fields, stored)
    /\ UNCHANGED <<stored, edits, snapshot, settingsFrame>>

\* The user changes one field; its change/input listener runs saveSettings
\* (641-649), which persists the record getSettings builds.
ChangeField(name, value) ==
    /\ edits < MaxEdits
    /\ edits' = edits + 1
    /\ fields' = [fields EXCEPT ![name] = value]
    /\ stored' = <<GetSettings(fields')>>
    /\ UNCHANGED <<loaded, snapshot, settingsFrame>>

\* A conversion starts (lines 46 and 488): it reads the form once and uses
\* that record from then on; createCompleteHTMLDocument builds the document
\* of a fragment from it (lines 143 and 493).
ReadSettings ==
    /\ snapshot' =
         <<[form |-> fields, persisted |-> stored,
            record |-> GetSettings(fields),
            document |-> CreateCompleteHTMLDocument(<<"X">>, GetSettings(fields))]>>
    /\ UNCHANGED <<fields, stored, loaded, edits, settingsFrame>>

NextSettings ==
    \/ LoadSettingsCallback
    \/ \E name \in FieldNames : \E value \in FieldValues[name] : ChangeField(name, value)
    \/ ReadSettings


(***************************************************************************)
(* convertRelativeUrls (popup.js 156-186), run in the page on the cloned   *)
(* document or on the cloned selection.  An element is its tag and its src *)
(* and href content attributes ("" when the attribute is absent) and the   *)
(* url of its inline background-image ("" when it has none).               *)
(***************************************************************************)
Pages == {"https://example.com/dir/page.html", "file:///dir/page.html"}
Directory(p) ==
    IF p = "https://example.com/dir/page.html" THEN "https://example.com/dir/"
    ELSE "file:///dir/"

RelativeUrl == "a.png"
HttpUrl == "https://cdn.example.com/a.png"
DataUrl == "data:image/png;base64,AAAA"
AttributeValues == {RelativeUrl, HttpUrl, DataUrl}

\* new URL(url, base).href: a url with a scheme is itself, a relative path
\* replaces the last segment of the base.
HasScheme(url) ==
    url \in {HttpUrl, DataUrl} \cup {Directory(p) \o RelativeUrl : p \in Pages}
NewURL(url, base) == IF HasScheme(url) THEN url ELSE Directory(base) \o url

\* s.startsWith('http'), for the urls above
StartsWithHttp(s) == s \in {HttpUrl, "https://example.com/dir/a.png"}

Tags4 == {"img", "a", "link", "script"}
ElementTags == Tags4 \cup {"iframe", "div"}
\* The elements whose interface has the src, the href property.
HasSrcProperty(tag) == tag \in {"img", "script", "iframe"}
HasHrefProperty(tag) == tag \in {"a", "link"}

\* el.src and el.href: the attribute resolved against the document's URL,
\* '' when the attribute is absent, undefined (falsy, here '') when the
\* element's interface has no such property.
SrcProperty(el, p) ==
    IF HasSrcProperty(el.tag) /\ el.src # "" THEN NewURL(el.src, p) ELSE ""
HrefProperty(el, p) ==
    IF HasHrefProperty(el.tag) /\ el.href # "" THEN NewURL(el.href, p) ELSE ""

\* getComputedStyle(el).backgroundImage: the subtree is a clone that is not
\* rendered (lines 101 and 126-127), so no computed value resolves.
ComputedBackgroundImage(el) == ""

\* lines 160-167, for one element of querySelectorAll('img, a, link, script')
ConvertUrls(el, p) ==
    [el EXCEPT
        !.src = IF SrcProperty(el, p) # "" /\ ~StartsWithHttp(SrcProperty(el, p))
                THEN NewURL(SrcProperty(el, p), p) ELSE @,
        !.href = IF HrefProperty(el, p) # "" /\ ~StartsWithHttp(HrefProperty(el, p))
                 THEN NewURL(HrefProperty(el, p), p) ELSE @]

\* lines 171-185, for one element of querySelectorAll('*')
ConvertBackground(el, p) ==
    LET url == ComputedBackgroundImage(el)
    IN  IF url # "" /\ url # "none" /\ ~StartsWithHttp(url) /\ url # DataUrl
        THEN [el EXCEPT !.background = NewURL(url, p)]
        ELSE el

\* convertRelativeUrls(element) on the descendants of `element`
ConvertRelativeUrls(els, p) ==
    [k \in DOMAIN els |->
        ConvertBackground(
            IF els[k].tag \in Tags4 THEN ConvertUrls(els[k], p) ELSE els[k], p)]

\* The elements of the model: any tag, with a src, an href, an inline
\* background image, or none of them.
Elements ==
    {[tag |-> t, src |-> "", href |-> "", background |-> b] :
        t \in ElementTags, b \in {"", RelativeUrl}}
    \cup {[tag |-> t, src |-> v, href |-> "", background |-> ""] :
        t \in ElementTags, v \in AttributeValues}
    \cup {[tag |-> t, src |-> "", href |-> v, background |-> ""] :
        t \in ElementTags, v \in AttributeValues}
Subtrees == UNION {[1..n -> Elements] : n \in 1..MaxElements}

\* No page is being read (behaviours of the other specifications).
UrlsIdle ==
    /\ page = "https://example.com/dir/page.html"
    /\ original = <<>>
    /\ subtree = <<>>
    /\ urlsDone = FALSE

\* getPageContent has cloned the document or the selection of a page.
InitUrls ==
    /\ page \in Pages
    /\ original \in Subtrees
    /\ subtree = original
    /\ urlsDone = FALSE

\* lines 113 and 130: convertRelativeUrls(clone), convertRelativeUrls(container)
CallConvertRelativeUrls ==
    /\ ~urlsDone
    /\ urlsDone' = TRUE
    /\ subtree' = ConvertRelativeUrls(subtree, page)
    /\ UNCHANGED <<page, original, urlFrame>>

NextUrls == CallConvertRelativeUrls


(***************************************************************************)
(* Specifications.                                                         *)
(***************************************************************************)
\* The programs: the popup, the Node module as a library, or its command line.
Init ==
    /\ host \in {"extension", "node", "cli"}
    /\ LoopIdle
    /\ InitNode
    /\ InitPopup
    /\ PrepIdle
    /\ SettingsIdle
    /\ UrlsIdle

Next == NextPopup \/ NextNode

Spec == Init /\ [][Next]_vars

\* The popup when every platform callback owed to a conversion arrives.
FairSpec == Spec /\ \A c \in Conversions : WF_vars(Callbacks(c))

\* The page-placement loop on every image and page height within the bounds.
InitPaginate ==
    /\ host = "extension"
    /\ InitLoop
    /\ InitNode
    /\ InitPopup
    /\ PrepIdle
    /\ SettingsIdle
    /\ UrlsIdle

SpecPaginate == InitPaginate /\ [][NextLoop]_vars

\* The loop runs on: the callback that holds it is one synchronous task.
FairPaginate == SpecPaginate /\ WF_vars(NextLoop)

\* The preprocessing functions on every input and settings value of the model.
InitPreprocess ==
    /\ host = "node"
    /\ LoopIdle
    /\ InitNode
    /\ InitPopup
    /\ InitPrep
    /\ SettingsIdle
    /\ UrlsIdle

SpecPreprocess == InitPreprocess /\ [][NextPrep]_vars

\* The settings form of one popup session.
InitForm ==
    /\ host = "extension"
    /\ LoopIdle
    /\ InitNode
    /\ InitPopup
    /\ PrepIdle
    /\ InitSettings
    /\ UrlsIdle

SpecSettings == InitForm /\ [][NextSettings]_vars

\* convertRelativeUrls on every subtree and page of the model.
InitPage ==
    /\ host = "extension"
    /\ LoopIdle
    /\ InitNode
    /\ InitPopup
    /\ PrepIdle
    /\ SettingsIdle
    /\ InitUrls

SpecUrls == InitPage /\ [][NextUrls]_vars


(***************************************************************************)
(* THE CLAIMS.                                                             *)
(***************************************************************************)
Ceiling(a, b) == (a + b - 1) \div b
Min(a, b) == IF a <= b THEN a ELSE b

\* The band of the image that page k shows: the image is placed at vertical
\* offset y on a page of height pageHeight, so the page shows the image rows
\* from -y to -y + pageHeight, cut at the image's end.
BandStart(k) == 0 - pdfPages[k].y
BandEnd(k) == Min(BandStart(k) + pageHeight, imgHeight)
BandHeight(k) == BandEnd(k) - BandStart(k)

RECURSIVE SumBandHeights(_)
SumBandHeights(k) == IF k = 0 THEN 0 ELSE BandHeight(k) + SumBandHeights(k - 1)

\* C1: when the loop has ended on an image of height H > 0 and a page of
\* height P > 0, the PDF has exactly ceil(H / P) pages (so no extra page when
\* H is a multiple of P).
C1_PageCountIsCeiling ==
    (loopPc = "done" /\ imgHeight > 0) =>
        Len(pdfPages) = Ceiling(imgHeight, pageHeight)

\* C2: page k (from 0) is placed at x = 0 and offset -k*P; the bands the pages
\* show start at 0, follow one another with no gap and no overlap, all but the
\* last are P high, and when the loop has ended they add up to H.
C2_BandsPartitionImage ==
    /\ \A k \in 1..Len(pdfPages) :
          /\ pdfPages[k].x = 0
          /\ pdfPages[k].y = 0 - (k - 1) * pageHeight
          /\ BandHeight(k) >= 0
          /\ k < Len(pdfPages) =>
                /\ BandHeight(k) = pageHeight
                /\ BandStart(k + 1) = BandEnd(k)
    /\ loopPc = "done" =>
          /\ BandStart(1) = 0
          /\ BandEnd(Len(pdfPages)) = imgHeight
          /\ SumBandHeights(Len(pdfPages)) = imgHeight

\* C2's case: the loop has ended with three pages, the last showing a
\* shorter, non-empty band.
C2_Witness ==
    /\ loopPc = "done"
    /\ Len(pdfPages) = 3
    /\ BandHeight(3) > 0
    /\ BandHeight(3) < pageHeight

\* What the claims call an invalid argument: empty, or not a string.
EmptyOrNotString(x) == x.t # "string" \/ x.v = ""

Settled(i) == calls[i].pc = "settled"
Count(seq, x) == Cardinality({k \in 1..Len(seq) : seq[k] = x})

\* C3: a call whose htmlContent or outputPath is empty or not a string is
\* rejected, and puppeteer.launch is never invoked for it.
C3_InvalidArgumentsRejectedBeforeLaunch ==
    \A i \in DOMAIN calls :
        (EmptyOrNotString(calls[i].htmlContent)
         \/ EmptyOrNotString(calls[i].outputPath)) =>
            /\ calls[i].result.kind = "rejected"
            /\ Count(calls[i].log, "launch") = 0
            /\ calls[i].browser = 0

\* C3's case: a call with good HTML and an empty output path was rejected.
C3_Witness ==
    \E i \in DOMAIN calls :
        /\ calls[i].htmlContent = Str("<h1>Hi</h1>")
        /\ calls[i].outputPath = Str("")
        /\ calls[i].result.kind = "rejected"

\* C4: close is never invoked twice, and once the promise of a call that
\* launched a browser session has settled, browser.close was invoked exactly
\* once, after whatever the stages did.
C4_LaunchedSessionClosedOnce ==
    \A i \in DOMAIN calls :
        /\ Count(calls[i].log, "close") <= 1
        /\ (Settled(i) /\ calls[i].browser # 0) =>
               /\ Count(calls[i].log, "close") = 1
               /\ calls[i].log[Len(calls[i].log)] = "close"

\* C4's case: page.pdf threw in a launched session and the promise settled.
C4_Witness ==
    \E i \in DOMAIN calls :
        /\ Settled(i)
        /\ calls[i].browser # 0
        /\ calls[i].completion = Throw("pdf failed")

\* C5: a settled call that passed validation resolves to its outputPath when
\* every stage succeeded, and rejects with the error of the stage that threw.
C5_OutcomeIsTheStagesOutcome ==
    \A i \in DOMAIN calls :
        (Settled(i) /\ calls[i].log # <<>>) =>
            /\ calls[i].completion.kind = "return" =>
                  calls[i].result = [kind |-> "resolved", value |-> calls[i].outputPath]
            /\ calls[i].completion.kind = "throw" =>
                  calls[i].result = [kind |-> "rejected", value |-> calls[i].completion.value]

\* C6: at most one conversion of the popup is in flight at any time.
C6_AtMostOneInFlight ==
    Cardinality({c \in DOMAIN conv : InFlight(c)}) <= 1

\* C7: once a conversion has reported success or error, the off-screen
\* container it created is no longer attached.
C7_ContainerRemovedAtTerminal ==
    \A c \in DOMAIN conv :
        conv[c].reported # <<>> => conv[c].container # "attached"

\* C7's case: one conversion has failed and one has succeeded after mounting
\* their containers.
C7_Witness ==
    \E c, d \in DOMAIN conv :
        /\ conv[c].reported = <<"error">> /\ conv[c].container = "removed"
        /\ conv[d].reported = <<"success">> /\ conv[d].container = "removed"

\* C8: a conversion in its terminal state has no live object URL: neither the
\* blob URL that carried the page's HTML nor the PDF's blob URL.
C8_ObjectUrlsRevokedAtTerminal ==
    \A c \in DOMAIN conv :
        conv[c].pc = "done" => (conv[c].htmlUrl # "live" /\ conv[c].pdfUrl # "live")

\* C8's case: a conversion created both URLs and ended with a download error.
C8_Witness ==
    \E c \in DOMAIN conv :
        /\ conv[c].pc = "done"
        /\ conv[c].reported = <<"error">>
        /\ conv[c].htmlUrl = "revoked"
        /\ conv[c].pdfUrl = "revoked"

\* The order of the stages of one conversion.
Pipeline ==
    <<"Extracting", "Preprocessing", "Rendering", "Paginating", "Assembling",
      "Delivering">>
Rank(stage) == CHOOSE k \in 1..Len(Pipeline) : Pipeline[k] = stage
StrictlyUp(stages) ==
    \A k \in 1..(Len(stages) - 1) : Rank(stages[k]) < Rank(stages[k + 1])

\* The operations of one headless call, in order; close is the cleanup.
HeadlessPipeline ==
    <<"launch", "newPage", "processHTMLContent", "setContent", "pdf">>
IsPrefix(s, t) == Len(s) <= Len(t) /\ SubSeq(t, 1, Len(s)) = s
WithoutClose(log) ==
    IF log # <<>> /\ log[Len(log)] = "close" THEN SubSeq(log, 1, Len(log) - 1) ELSE log

\* C9: the stages of a conversion run in pipeline order, each at most once
\* (popup: the stage log climbs strictly; headless: the operations are a
\* prefix of the pipeline, then at most the close), and once a conversion has
\* failed no stage of it runs any more (headless: the close was its last).
C9_StagesInOrderNoneAfterFailure ==
    /\ [](/\ \A c \in DOMAIN conv : StrictlyUp(conv[c].stages)
          /\ \A i \in DOMAIN calls : IsPrefix(WithoutClose(calls[i].log), HeadlessPipeline))
    /\ [][/\ \A c \in DOMAIN conv :
                "error" \in {conv[c].reported[k] : k \in 1..Len(conv[c].reported)} =>
                    (conv'[c].stages = conv[c].stages /\ conv'[c].pc = "done")
          /\ \A i \in DOMAIN calls :
                calls[i].completion.kind = "throw" =>
                    calls'[i].log = calls[i].log]_vars

\* C9's case: a conversion failed in the middle of the pipeline, at the
\* library check, after rendering had begun.
C9_Witness ==
    \E c \in DOMAIN conv :
        /\ conv[c].reported = <<"error">>
        /\ conv[c].stages = <<"Extracting", "Preprocessing", "Rendering">>
        /\ status.text = "Error: jsPDF library failed to load"

\* C10: if every callback arrives, each started conversion reaches its
\* terminal state; it makes exactly one terminal report there, success or
\* error, and the status element shows that report when it is made.
C10_EveryConversionEndsOnce ==
    /\ \A c \in Conversions :
          (c \in DOMAIN conv) ~> (c \in DOMAIN conv /\ conv[c].pc = "done")
    /\ [](\A c \in DOMAIN conv :
             /\ Len(conv[c].reported) <= 1
             /\ (conv[c].pc = "done") <=> (Len(conv[c].reported) = 1))
    /\ [][\A c \in DOMAIN conv :
             conv'[c].reported # conv[c].reported =>
                 (status'.by = c /\ status'.type = conv'[c].reported[1]
                  /\ status'.type \in {"success", "error"})]_vars

\* C10's case: a conversion has ended with the success message on display.
C10_Witness ==
    \E c \in DOMAIN conv :
        /\ conv[c].pc = "done"
        /\ conv[c].reported = <<"success">>
        /\ status = [text |-> "PDF downloaded successfully!", type |-> "success", by |-> c]

\* C11: while a conversion of the popup is in flight (from its click until its
\* success or error report), the status element shows a loading-type message:
\* it is neither blank nor an error or success message.
C11_LoadingShownWhileInFlight ==
    \A c \in DOMAIN conv : InFlight(c) => status.type = "loading"

\* ---- the preprocessor's claims ----
CountIn(s, set) == Cardinality({k \in DOMAIN s : s[k] \in set})

\* The style blocks the preprocessor generates: a style element whose text is
\* one of the generated style sheets.
GeneratedCss ==
    {CssText(c) : c \in Configs}
    \cup {PopupSplicedCss(c)[3] : c \in Configs} \cup {PopupShellCss(c)[3] : c \in Configs}
GeneratedStyleBlocks(s) ==
    Cardinality({k \in DOMAIN s :
        /\ s[k] = "<style>"
        /\ At(s, k + 1) \in GeneratedCss
        /\ At(s, k + 2) = "</style>"})

\* C12: the output of processHTMLContent on a non-empty input contains exactly
\* one generated style block, for a fragment and for a complete document in
\* any letter case, with or without </head>.
C12_ExactlyOneGeneratedStyleBlock ==
    applied = <<"processHTMLContent">> => GeneratedStyleBlocks(markup) = 1

\* C13: a second pass of shell detection and style injection over the output
\* of a first pass synthesizes no second document shell (no further html
\* root), and its result has at most the one injected style block.
C13_SecondPassInjectsNothing ==
    applied \in {<<"processHTMLContent", "processHTMLContent">>,
                 <<"createCompleteHTMLDocument", "createCompleteHTMLDocument">>} =>
        /\ CountIn(markup, {"<!DOCTYPE html>"}) <= 1
        /\ CountIn(markup, ReHtmlOpen) <= 1
        /\ GeneratedStyleBlocks(markup) <= 1

\* An opening tag of the given element, in any letter case, with or without
\* attributes (<header> is no head tag).
OpeningTags(name) ==
    CASE name = "html" -> {"<html>", "<HTML>", "<html lang=\"en\">"}
      [] name = "head" -> {"<head>", "<HEAD>"}
      [] name = "body" -> {"<body>", "<BODY>", "<body class=\"x\">"}
ClosingHeadTags == {"</head>", "</HEAD>"}
IsComplete(s) == \A name \in {"html", "head", "body"} : CountIn(s, OpeningTags(name)) > 0

\* s contains t as a run of consecutive tokens starting at position k.
OccursAt(s, t, k) == k + Len(t) - 1 <= Len(s) /\ SubSeq(s, k, k + Len(t) - 1) = t

\* C14: processHTMLContent synthesizes a shell exactly when one of the html,
\* head, body opening tags is missing; then the wrapper-fixed input is the
\* body content, verbatim (with its code-block previews when those are
\* rendered); otherwise no shell is added and the generated style block
\* stands immediately before the closing head tag.
C14_ShellIffIncomplete ==
    applied = <<"processHTMLContent">> =>
        LET fixed == FixCenteringIssues(source)
            body == IF config.renderCodeBlocks THEN RenderHTMLCodeBlocks(fixed) ELSE fixed
            synthesized == CountIn(markup, {"<!DOCTYPE html>"}) > 0
        IN  /\ synthesized <=> ~IsComplete(fixed)
            /\ synthesized =>
                  \E k \in DOMAIN markup :
                      OccursAt(markup, <<"<body>", Space>> \o body \o <<Space, "</body>">>, k)
            /\ ~synthesized =>
                  \E k \in DOMAIN markup :
                      /\ OccursAt(markup, <<"<style>", CssText(config), "</style>">>, k)
                      /\ At(markup, SkipSpace(markup, k + 3)) \in ClosingHeadTags

\* Wrappers without a style of their own, and wrappers with one.
UnstyledWrappers == {DivContent, DivPlain, DivEmptyStyle}
StyledWrappers == {DivContentStyled, DivStyled}
\* The only child of a wrapper built by Wrapped.
Child(inner, content) == <<inner>> \o content \o <<"</div>">>

\* C15: a wrapper div with no style, or an empty one, whose only child is an
\* auto-margin div is replaced by that child alone, the child's markup kept
\* verbatim.
C15_UnstyledWrapperReplacedByChild ==
    applied = <<"fixCenteringIssues">> =>
        \A w \in UnstyledWrappers, sp \in {<<>>, <<Space>>}, i \in ReAutoMarginDiv,
           c \in InnerContents :
            source = Wrapped(w, sp, i, c) => markup = Child(i, c)

\* C16: a wrapper div with a non-empty style attribute of its own is left
\* unchanged, whatever its class and its child.
C16_StyledWrapperUnchanged ==
    applied = <<"fixCenteringIssues">> =>
        \A w \in StyledWrappers, sp \in {<<>>, <<Space>>}, i \in ReAutoMarginDiv,
           c \in InnerContents :
            source = Wrapped(w, sp, i, c) => markup = source

\* The position of the closing div that matches the opening div at p - 1,
\* scanning from p at nesting depth d; 0 if there is none.
RECURSIVE MatchingClose(_, _, _)
MatchingClose(s, p, d) ==
    IF p > Len(s) THEN 0
    ELSE IF s[p] \in ReCloseDiv THEN (IF d = 0 THEN p ELSE MatchingClose(s, p + 1, d - 1))
    ELSE IF s[p] \in ReDivOpen THEN MatchingClose(s, p + 1, d + 1)
    ELSE MatchingClose(s, p + 1, d)

\* s without its preview containers (each from the white space before its
\* box to the closing div of the box).
RECURSIVE WithoutPreviews(_, _)
WithoutPreviews(s, p) ==
    IF p > Len(s) THEN <<>>
    ELSE IF s[p] \in ReSpace /\ At(s, p + 1) = DivPreviewBox
            /\ MatchingClose(s, p + 2, 0) # 0
    THEN WithoutPreviews(s, MatchingClose(s, p + 2, 0) + 1)
    ELSE <<s[p]>> \o WithoutPreviews(s, p + 1)

\* The preview containers of s stand each immediately after a block.
PreviewsFollowBlocks(s) ==
    \A k \in DOMAIN s :
        s[k] = DivPreviewBox =>
            /\ At(s, k - 1) \in ReSpace
            /\ At(s, k - 2) \in RePreClose
            /\ At(s, k - 3) \in ReCodeClose

C18_EscapedBlockGetsPreview ==
    (/\ applied = <<"processHTMLContent">>
     /\ config.renderCodeBlocks
     /\ source = Block(Escaped)) =>
        /\ CountIn(markup, {PreviewLabel}) = 1
        /\ \E k \in DOMAIN markup :
              OccursAt(markup, Block(Escaped) \o <<Space, DivPreviewBox>>, k)

\* C19: render(render(x)) = render(x).
C19_RenderingIsIdempotent ==
    applied = <<"renderHTMLCodeBlocks", "renderHTMLCodeBlocks">> =>
        markup = RenderHTMLCodeBlocks(source)

\* C20: the command-line program exits with code 0 exactly when the
\* conversion succeeded (convertHTMLToPDF resolved); it exits with another code
\* with fewer than two arguments, an unreadable input file, an empty input or
\* a failure inside convertHTMLToPDF, and in the first three of these cases no
\* browser session was launched.
C20_ExitCodeZeroIffSuccess ==
    cli.pc = "exited" =>
        LET converted == calls # <<>> /\ calls[Len(calls)].result.kind = "resolved"
            early == \/ Len(cli.args) < 2
                     \/ calls = <<>>
                     \/ calls[Len(calls)].htmlContent = Str("")
        IN  /\ cli.exitCode = 0 <=> converted
            /\ cli.exitCode \in {0, 1}
            /\ early =>
                  /\ cli.exitCode # 0
                  /\ browsers = <<>>
                  /\ \A i \in DOMAIN calls : Count(calls[i].log, "launch") = 0

\* C20's case: the program has exited with code 1 after page.pdf failed in a
\* launched session.
C20_Witness ==
    /\ cli.pc = "exited"
    /\ cli.exitCode = 1
    /\ calls # <<>>
    /\ calls[Len(calls)].completion = Throw("pdf failed")

\* ---- C21 ----
\* C21: a conversion that reads the form while nothing is persisted and no
\* field holds a value uses exactly the record A4, portrait, 10, document.pdf.
DefaultSettings ==
    [pageSize |-> "A4", orientation |-> "portrait", margin |-> 10,
     filename |-> "document.pdf"]
C21_DefaultsWhenNothingPersisted ==
    \A i \in DOMAIN snapshot :
        (snapshot[i].persisted = <<>> /\ snapshot[i].form = BlankFields)
            => snapshot[i].record = DefaultSettings
\* the storage has answered with no items, and a conversion has read the
\* still blank form
C21_Witness ==
    /\ loaded
    /\ edits = 0
    /\ snapshot # <<>>
    /\ snapshot[1].persisted = <<>>
    /\ snapshot[1].form = BlankFields

\* ---- C30 ----
\* The body-margin declaration of the popup's style element for a margin of
\* m millimetres occurs in the document.
SetsBodyMargin(document, m) ==
    \E k \in DOMAIN document :
        document[k] \in {PopupShellCss([margin |-> m])[3],
                         PopupSplicedCss([margin |-> m])[3]}
\* C30: for every integer m >= 0 in the margin field (m = 0 included) the
\* record a conversion takes has margin m, and the document built from it
\* sets the body margin to m mm.
C30_MarginIsTheEnteredMargin ==
    \A i \in DOMAIN snapshot : \A m \in 0..MaxMargin :
        snapshot[i].form.margin = Decimal(m)
            => /\ snapshot[i].record.margin = m
               /\ SetsBodyMargin(snapshot[i].document, m)

\* ---- C22 ----
\* The tabs of the model without a URL or with a chrome:// or
\* chrome-extension:// URL.
NoUrlOrBrowserPage(tab) ==
    \/ tab.url = Undefined
    \/ tab.url \in {Str("chrome://extensions"), Str("chrome-extension://abcd/popup.html")}
\* The status texts that begin with 'Cannot access this page'.
AccessMessages ==
    {"Cannot access this page. Try a regular website.",
     "Cannot access this page. Try a regular website or use HTML Input tab."}
\* The conversion has ended with the access message, having rendered nothing.
EndedWithAccessMessage(c) ==
    /\ status'.text \in AccessMessages
    /\ status'.type = "error"
    /\ status'.by = c
    /\ conv'[c].pc = "done"
    /\ conv'[c].reported = <<"error">>
    /\ "Rendering" \notin {conv'[c].stages[k] : k \in DOMAIN conv'[c].stages}
\* C22: when the active tab has no URL or a chrome:// or chrome-extension://
\* URL, the tabs callback reports 'Cannot access this page ...' and the
\* conversion ends there, with no script injected and no PDF generation
\* started; an injection that fails with 'Cannot access contents' ends the
\* conversion with the same kind of message; an ended conversion takes no
\* further step.
C22_InaccessibleTabReported ==
    [][\A c \in Conversions :
        /\ (\E tabs \in TabResults :
                /\ tabs.defined /\ Len(tabs.list) > 0
                /\ NoUrlOrBrowserPage(tabs.list[1])
                /\ TabsQueryCallback(c, tabs))
            => (EndedWithAccessMessage(c) /\ conv'[c].stages = <<>>)
        /\ (\E res \in ScriptResults :
                /\ res.lastError = AccessErrorMessage
                /\ ExecuteScriptCallback(c, res))
            => EndedWithAccessMessage(c)
        /\ (c \in DOMAIN conv /\ conv[c].pc = "done") => conv'[c] = conv[c]
      ]_vars
\* a conversion ended by the tabs callback on an inaccessible tab
C22_Witness ==
    \E c \in DOMAIN conv :
        /\ status = [text |-> "Cannot access this page. Try a regular website.",
                     type |-> "error", by |-> c]
        /\ conv[c].pc = "done"
        /\ conv[c].stages = <<>>

\* ---- C23 ----
\* The calls that hold session b in their `browser` variable.
Owners(b) == {i \in DOMAIN calls : calls[i].browser = b}
\* Every session was launched by exactly one call, and a closed session was
\* closed by the finally block of that call.
OwnSessions ==
    \A b \in DOMAIN browsers :
        /\ Cardinality(Owners(b)) = 1
        /\ browsers[b] = "closed" =>
              \A i \in Owners(b) : Settled(i) /\ Count(calls[i].log, "close") = 1
\* What a call's promise may hold given the call's own record alone.
OwnOutcomes(c) ==
    IF c.pc # "settled" THEN {Pending}
    ELSE IF c.browser = 0 THEN {Settle(c.completion)}
    ELSE {Settle(c.completion), Settle(Throw("close failed"))}
\* C23: concurrent calls of the headless convertHTMLToPDF are independent:
\* every session has one owner and is closed only by its owner; a step of
\* one call changes neither another call nor another call's session; and
\* what a call's promise holds is determined by the call's own arguments
\* and the outcomes of its own stages, whatever the other calls do.
C23_ConcurrentCallsIndependent ==
    /\ [](/\ OwnSessions
          /\ \A i \in DOMAIN calls : calls[i].result \in OwnOutcomes(calls[i]))
    /\ [][\A i \in DOMAIN calls :
            calls'[i] # calls[i] =>
                /\ \A j \in DOMAIN calls \ {i} : calls'[j] = calls[j]
                /\ \A b \in DOMAIN browsers :
                      browsers'[b] # browsers[b] => b = calls[i].browser
         ]_vars
\* two calls interleaved: one has settled and closed its session while the
\* other, launched before that close, still works in its own open session
C23_Witness ==
    \E i, j \in DOMAIN calls :
        /\ i # j
        /\ Settled(i) /\ calls[i].browser # 0
        /\ browsers[calls[i].browser] = "closed"
        /\ calls[j].pc = "pdf"
        /\ browsers[calls[j].browser] = "open"
        /\ calls[j].browser < calls[i].browser

\* ---- C24 ----
\* The value a src or href attribute must hold afterwards: an absolute or
\* data url as it was, any other resolved against the page.
Expected(value, p) ==
    IF value \in {HttpUrl, DataUrl} THEN value ELSE Directory(p) \o value
\* C24: after convertRelativeUrls every element of the subtree that carries
\* a src or an href holds an absolute url resolved against the page, with
\* absolute and data urls unchanged, and an element with neither attribute
\* is as it was.
C24_UrlsAbsoluteAfterwards ==
    urlsDone =>
        \A k \in DOMAIN subtree :
            /\ original[k].src # "" => subtree[k].src = Expected(original[k].src, page)
            /\ original[k].href # "" => subtree[k].href = Expected(original[k].href, page)
            /\ (original[k].src = "" /\ original[k].href = "") => subtree[k] = original[k]

\* ---- C25 ----
\* The text of a string: its tokens that are neither tags nor white space.
TextOf(s) == {s[k] : k \in DOMAIN s} \ (Tags \cup ReSpace)
\* The input has no document structure as processHTMLContent looks for it:
\* no tag that begins with <html, none with <head, or none with <body.
LacksStructure(s) ==
    \/ ~Test(ReHtmlOpen, s)
    \/ ~Test(ReHeadOpen, s)
    \/ ~Test(ReBodyOpen, s)
Blank(text) == \A k \in DOMAIN text : text[k] \in {" ", "\n"}
\* C26: a click on "convert HTML" with empty or white-space-only text shows
\* the error 'Please enter some HTML code' and starts nothing: no loading
\* status, no conversion, no container, no stage.
C26_BlankHtmlStartsNothing ==
    [][\A text \in HtmlInputs :
          (Blank(text) /\ ClickConvertHTML(text)) =>
              /\ status' = [text |-> "Please enter some HTML code",
                            type |-> "error", by |-> 0]
              /\ conv' = conv
      ]_vars
\* the error is on show and no conversion was ever started
C26_Witness ==
    /\ status = [text |-> "Please enter some HTML code", type |-> "error", by |-> 0]
    /\ conv = <<>>

\* ---- C27 ----
\* C27: when the injected getPageContent returns false (nothing selected),
\* the executeScript callback shows 'Error: Could not process page content.
\* Try selecting text or use HTML Input tab.' and the conversion ends without
\* generatePDFFromHTML being called.
C27_NothingSelectedSpecificMessage ==
    [][\A c \in Conversions :
          (\E res \in ScriptResults :
              /\ res.lastError = ""
              /\ res.defined /\ Len(res.list) > 0
              /\ res.list[1].result = False
              /\ ExecuteScriptCallback(c, res))
          => /\ status' =
                  [text |-> "Error: Could not process page content. Try selecting text or use HTML Input tab.",
                   type |-> "error", by |-> c]
             /\ conv'[c].pc = "done"
             /\ conv'[c].htmlUrl = "none"
             /\ conv'[c].container = "none"
      ]_vars

\* ---- C28 ----
\* C28: for every image height H >= 0 and page height P > 0 the loop ends;
\* the remaining height is H minus P per page placed; every iteration
\* entered with a remaining height >= 0 appends a page and takes P off; the
\* loop is left, with nothing changed, at the first negative remaining height.
C28_LoopTerminates ==
    /\ <>(loopPc = "done")
    /\ [](loopPc \in {"loop", "done"} =>
              heightLeft = imgHeight - Len(pdfPages) * pageHeight)
    /\ [](loopPc = "done" => (heightLeft < 0 /\ heightLeft + pageHeight >= 0))
    /\ [][(loopPc = "loop" /\ heightLeft >= 0) =>
              /\ heightLeft' = heightLeft - pageHeight
              /\ Len(pdfPages') = Len(pdfPages) + 1
              /\ loopPc' = "loop"]_vars
    /\ [][(loopPc = "loop" /\ heightLeft < 0) =>
              /\ loopPc' = "done"
              /\ UNCHANGED <<heightLeft, pdfPages>>]_vars
\* the loop has ended after an iteration entered with exactly 0 remaining
C28_Witness ==
    /\ loopPc = "done"
    /\ imgHeight = 2 * pageHeight
    /\ Len(pdfPages) = 3
    /\ heightLeft = 0 - pageHeight

\* ---- C29 ----
\* C29: the 3-second timer of a success message never blanks a loading or
\* an error status that a later showStatus call wrote.
C29_TimerSparesLaterStatus ==
    [][StatusTimerFires => status.type \notin {"loading", "error"}]_vars

=============================================================================
